---- MODULE Spec2Model ----
(***************************************************************************)
(* Model of the Quote-Notifier-Service scripts:                            *)
(*   src/ingest.py       clean_dataframe, load_csv_to_clickhouse           *)
(*   src/apirequest.py   get_random_quote, main (quote emailer)            *)
(*   src/subscribers.py  mask_phone, send_messages, script entry point     *)
(* The scripts are independent of each other, so each one has its own      *)
(* specification over its own variables; the variables of the other        *)
(* scripts stay at their idle values.                                      *)
(***************************************************************************)
EXTENDS Integers, Sequences, FiniteSets, TLC

VARIABLES
    \* ---- load_csv_to_clickhouse (src/ingest.py) ----
    incremental,        \* parameter incremental
    timestamp_column,   \* parameter timestamp_column (None when not given)
    batch_size,         \* parameter batch_size
    tableExists,        \* warehouse: does database.table exist
    tableMax,           \* warehouse: max(timestamp_column) of the table, None when it has no rows
    csvColumns,         \* header of the CSV file
    rows,               \* the CSV rows, in file order: the timestamp cell of each row
    chunks,             \* what pd.read_csv(chunksize=batch_size) yields: row numbers per chunk
    max_timestamp,      \* local max_timestamp
    total_rows,         \* local total_rows
    skipped_rows,       \* local skipped_rows
    chunk_num,          \* number of chunks consumed from the reader
    inserted,           \* row numbers handed to INSERT, in order
    insertCalls,        \* number of INSERT client.execute calls issued
    queries,            \* number of EXISTS / SELECT max client.execute calls issued
    csvRead,            \* pd.read_csv has been called
    connection,         \* the client's connection: "none", "open", "closed"
    connects,           \* number of connections the client has established
    watermarkError,     \* the EXISTS or the SELECT max query raised
    \* ---- the WhatsApp broadcaster (src/subscribers.py) ----
    google_form,        \* os.getenv("GOOGLE_LINK")
    recepients,         \* os.getenv("CONTACTS"), as its comma-separated fields
    message_template,   \* os.getenv("MESSAGE_TEMPLATE")
    sender_name,        \* os.getenv("SENDER_NAME")
    contact_list,       \* module-level contact_list
    attempts,           \* phone numbers handed to kit.sendwhatmsg_instantly, in order
    log,                \* messages given to logger.error, in order
    \* ---- mask_phone (src/subscribers.py) ----
    phone_number,       \* argument of mask_phone
    masked_number,      \* its result
    \* ---- the quote emailer (src/apirequest.py) ----
    subscribers,        \* result of get_subscribers()
    response,           \* what the ZenQuotes request of the current get_random_quote call met
    quote,              \* local quote of main: the value get_random_quote returned
    quoteCalls,         \* number of get_random_quote calls
    requestsMade,       \* number of requests.get calls
    \* ---- clean_dataframe (src/ingest.py) ----
    df,                 \* the table extract_to_df produced
    cleaned,            \* outcome of clean_dataframe(df)
    recleaned,          \* outcome of clean_dataframe applied to that result
    \* ---- locals that the scripts name alike; each specification uses its own ----
    pc,                 \* position inside the running function or script
    exc,                \* exception leaving the function or script, None when there is none
    idx,                \* loop index idx of send_messages / main
    success_count,      \* local success_count of send_messages / main
    failed_count,       \* local failed_count of send_messages / main
    trace               \* sends and sleeps of the loop, in order

loadVars == <<incremental, timestamp_column, batch_size, tableExists, tableMax,
              csvColumns, rows, chunks, max_timestamp, total_rows,
              skipped_rows, chunk_num, inserted, insertCalls, queries, csvRead,
              connection, connects, watermarkError>>

whatsVars == <<google_form, recepients, message_template, sender_name,
               contact_list, attempts, log>>

maskVars == <<phone_number, masked_number>>

emailVars == <<subscribers, response, quote, quoteCalls, requestsMade>>

cleanVars == <<df, cleaned, recleaned>>

loopVars == <<idx, success_count, failed_count, trace>>

vars == <<loadVars, whatsVars, maskVars, emailVars, cleanVars, loopVars, pc, exc>>

(***************************************************************************)
(* Bounds                                                                  *)
(***************************************************************************)
MaxRows == 3        \* longest CSV
MaxTs == 3          \* timestamps are the instants 1..MaxTs
MaxBatch == 2       \* largest batch_size
MaxPhoneLen == 6    \* longest argument of mask_phone
MaxContacts == 3    \* longest CONTACTS list
MaxSubscribers == 2 \* most subscribers get_subscribers returns
MaxTableRows == 2   \* most rows of a scraped table
TableWidths == 1..3 \* numbers of columns of a scraped table

(***************************************************************************)
(* Python values                                                           *)
(***************************************************************************)
None == "None"    \* None where the other values are strings
NoneTs == -2        \* None where the other values are timestamps
NaT == 0            \* pd.to_datetime of an empty timestamp cell
NoCell == -1        \* the row has no cell for timestamp_column (column not in the CSV)

\* Python truthiness of a value that is None or a string
TruthyStr(v) == v # None /\ v # ""

\* Python truthiness of max_timestamp (None or a datetime; every datetime is truthy)
TruthyTs(v) == v # NoneTs

Min(a, b) == IF a < b THEN a ELSE b

RECURSIVE SeqsUpTo(_, _)
SeqsUpTo(S, n) ==
    IF n = 0 THEN {<<>>}
    ELSE LET shorter == SeqsUpTo(S, n - 1)
         IN shorter \cup {Append(s, x) : s \in {t \in shorter : Len(t) = n - 1}, x \in S}

(***************************************************************************)
(* Values of the variables of the scripts a specification does not run     *)
(***************************************************************************)
LoadIdle ==
    /\ incremental = FALSE
    /\ timestamp_column = None
    /\ batch_size = 1
    /\ tableExists = FALSE
    /\ tableMax = NoneTs
    /\ csvColumns = {}
    /\ rows = <<>>
    /\ chunks = <<>>
    /\ max_timestamp = NoneTs
    /\ total_rows = 0
    /\ skipped_rows = 0
    /\ chunk_num = 0
    /\ inserted = <<>>
    /\ insertCalls = 0
    /\ queries = 0
    /\ csvRead = FALSE
    /\ connection = "none"
    /\ connects = 0
    /\ watermarkError = FALSE

WhatsIdle ==
    /\ google_form = None
    /\ recepients = <<>>
    /\ message_template = None
    /\ sender_name = None
    /\ contact_list = <<>>
    /\ attempts = <<>>
    /\ log = <<>>

MaskIdle ==
    /\ phone_number = <<>>
    /\ masked_number = <<>>

EmailIdle ==
    /\ subscribers = <<>>
    /\ response = [error |-> None, status |-> 0, body |-> None, q |-> None, a |-> None]
    /\ quote = <<>>
    /\ quoteCalls = 0
    /\ requestsMade = 0

CleanIdle ==
    /\ df = [columns |-> <<>>, data |-> <<>>]
    /\ cleaned = [raised |-> FALSE, exctype |-> None, value |-> df]
    /\ recleaned = cleaned

LoopIdle ==
    /\ idx = 0
    /\ success_count = 0
    /\ failed_count = 0
    /\ trace = <<>>

(***************************************************************************)
(* load_csv_to_clickhouse                                                  *)
(***************************************************************************)
\* pd.read_csv(csv_file_path, chunksize=batch_size): consecutive groups of
\* batch_size row numbers, the last one possibly shorter.
Chunking(n, size) ==
    [k \in 1..((n + size - 1) \div size) |->
        [j \in 1..Min(size, n - (k - 1) * size) |-> (k - 1) * size + j]]

\* chunk[chunk[timestamp_column] > max_ts]: NaT compares False with everything.
NewerKeepsEqual(chunk, max_ts) ==
    SelectSeq(chunk, LAMBDA i : rows[i] # NaT /\ rows[i] >= max_ts)

Newer(chunk, max_ts) ==
    SelectSeq(chunk, LAMBDA i : rows[i] # NaT /\ rows[i] > max_ts)

\* line 178: the incremental filter applies to this chunk
FilterApplies ==
    incremental /\ TruthyTs(max_timestamp) /\ timestamp_column \in csvColumns

LoadInit ==
    /\ incremental \in BOOLEAN
    /\ timestamp_column \in {None, "", "ts"}
    /\ batch_size \in 1..MaxBatch
    /\ tableExists \in BOOLEAN
    /\ tableMax \in IF tableExists THEN {NoneTs} \cup (1..MaxTs) ELSE {NoneTs}
    /\ csvColumns \in {{"email"}, {"email", "ts"}}
    /\ rows \in IF "ts" \in csvColumns
                THEN SeqsUpTo({NaT} \cup (1..MaxTs), MaxRows)
                ELSE SeqsUpTo({NoCell}, MaxRows)
    \* a CSV with a header and no rows: the reader yields nothing or one empty chunk
    /\ chunks \in IF Len(rows) = 0 THEN {<<>>, << <<>> >>}
                  ELSE {Chunking(Len(rows), batch_size)}
    /\ pc = "start"
    /\ max_timestamp = NoneTs
    /\ total_rows = 0
    /\ skipped_rows = 0
    /\ chunk_num = 0
    /\ inserted = <<>>
    /\ insertCalls = 0
    /\ queries = 0
    /\ csvRead = FALSE
    /\ connection = "none"
    /\ connects = 0
    /\ watermarkError = FALSE
    /\ exc = None
    /\ WhatsIdle /\ MaskIdle /\ EmailIdle /\ CleanIdle /\ LoopIdle

paramVars == <<incremental, timestamp_column, batch_size, tableExists, tableMax,
               csvColumns, rows, chunks, whatsVars, maskVars, emailVars, cleanVars,
               loopVars>>

\* except Exception as e: logger.error(...); raise      (lines 214-216)
Raise(e) ==
    /\ pc' = "raised"
    /\ exc' = e

connVars == <<connection, connects>>

\* a client.execute that returns: the driver connects when it holds no open connection
ExecuteReturns ==
    /\ connects' = IF connection = "open" THEN connects ELSE connects + 1
    /\ connection' = "open"

\* a client.execute that raises: the driver may or may not have connected before
\* the error, and may or may not drop its connection because of it
ExecuteRaises ==
    \E established \in BOOLEAN, dropped \in BOOLEAN :
        LET newly == connection # "open" /\ established
        IN /\ connects' = IF newly THEN connects + 1 ELSE connects
           /\ connection' = IF connection = "open" \/ newly
                             THEN (IF dropped THEN "closed" ELSE "open")
                             ELSE connection

\* client = Client(...); max_timestamp = None; the incremental configuration test
CheckConfigNoFailFast ==
    /\ pc = "start"
    /\ pc' = IF incremental THEN "exists" ELSE "read"
    /\ exc' = exc
    /\ max_timestamp' = NoneTs
    /\ UNCHANGED <<paramVars, total_rows, skipped_rows, chunk_num, inserted,
                   insertCalls, queries, csvRead, connVars, watermarkError>>

CheckConfig ==
    /\ pc = "start"
    /\ IF incremental /\ ~TruthyStr(timestamp_column)
       THEN Raise("ValueError")
       ELSE /\ pc' = IF incremental THEN "exists" ELSE "read"
            /\ exc' = exc
    /\ max_timestamp' = NoneTs
    /\ UNCHANGED <<paramVars, total_rows, skipped_rows, chunk_num, inserted,
                   insertCalls, queries, csvRead, connVars, watermarkError>>

\* result = client.execute("EXISTS TABLE ..."); the driver connects on first use.
\* A failure is caught by the inner except (line 165): max_timestamp = None.
ExistsQuery ==
    /\ pc = "exists"
    /\ queries' = queries + 1
    /\ \E fails \in BOOLEAN :
         IF fails
         THEN /\ pc' = "read"
              /\ ExecuteRaises
              /\ watermarkError' = TRUE
         ELSE /\ pc' = IF tableExists THEN "maxq" ELSE "read"
              /\ ExecuteReturns
              /\ UNCHANGED watermarkError
    /\ max_timestamp' = NoneTs
    /\ UNCHANGED <<paramVars, total_rows, skipped_rows, chunk_num, inserted,
                   insertCalls, csvRead, exc>>

\* result = client.execute("SELECT max(...)"); max_timestamp = result[0][0]
MaxQueryPropagates ==
    /\ pc = "maxq"
    /\ queries' = queries + 1
    /\ \E fails \in BOOLEAN :
         IF fails
         THEN /\ max_timestamp' = NoneTs
              /\ ExecuteRaises
              /\ watermarkError' = TRUE
              /\ Raise("Error")
         ELSE /\ max_timestamp' = tableMax
              /\ ExecuteReturns
              /\ pc' = "read"
              /\ UNCHANGED <<watermarkError, exc>>
    /\ UNCHANGED <<paramVars, total_rows, skipped_rows, chunk_num, inserted,
                   insertCalls, csvRead>>

MaxQuery ==
    /\ pc = "maxq"
    /\ queries' = queries + 1
    /\ \E fails \in BOOLEAN :
         IF fails
         THEN \* caught by the inner except (lines 165-167)
              /\ max_timestamp' = NoneTs
              /\ ExecuteRaises
              /\ watermarkError' = TRUE
         ELSE /\ max_timestamp' = tableMax
              /\ ExecuteReturns
              /\ UNCHANGED watermarkError
    /\ pc' = "read"
    /\ exc' = exc
    /\ UNCHANGED <<paramVars, total_rows, skipped_rows, chunk_num, inserted,
                   insertCalls, csvRead>>

\* total_rows = 0; skipped_rows = 0; pd.read_csv(csv_file_path, chunksize=batch_size)
ReadCsv ==
    /\ pc = "read"
    /\ csvRead' = TRUE
    /\ total_rows' = 0
    /\ skipped_rows' = 0
    /\ \E fails \in BOOLEAN :
         IF fails THEN Raise("FileNotFoundError")
         ELSE pc' = "loop" /\ exc' = exc
    /\ UNCHANGED <<paramVars, max_timestamp, chunk_num, inserted, insertCalls,
                   queries, connVars, watermarkError>>

\* the data of the chunk the loop body is about to handle, after the filter
Kept(chunk) ==
    IF FilterApplies THEN Newer(chunk, max_timestamp) ELSE chunk

\* line 188 / line 195: are zero-row chunks passed over without an insert
SkipsEmptyNever(data) == FALSE

SkipsEmpty(data) == Len(data) = 0

\* one iteration of the for loop (lines 175-205)
ProcessChunk ==
    /\ pc = "loop"
    /\ chunk_num < Len(chunks)
    /\ chunk_num' = chunk_num + 1
    /\ LET chunk == chunks[chunk_num + 1]
           data == Kept(chunk)
       IN /\ skipped_rows' = IF FilterApplies
                             THEN skipped_rows + (Len(chunk) - Len(data))
                             ELSE skipped_rows
          /\ IF SkipsEmpty(data)
             THEN \* continue
                  /\ UNCHANGED <<total_rows, inserted, insertCalls, connVars, pc, exc>>
             ELSE \* client.execute(query, data)
                  /\ insertCalls' = insertCalls + 1
                  /\ \E fails \in BOOLEAN :
                       IF fails
                       THEN /\ Raise("Error")
                            /\ ExecuteRaises
                            /\ UNCHANGED <<total_rows, inserted>>
                       ELSE /\ inserted' = inserted \o data
                            /\ total_rows' = total_rows + Len(data)
                            /\ ExecuteReturns
                            /\ UNCHANGED <<pc, exc>>
    /\ UNCHANGED <<paramVars, max_timestamp, queries, csvRead, watermarkError>>

\* the reader is exhausted: summary log line and client.disconnect()
Finish ==
    /\ pc = "loop"
    /\ chunk_num = Len(chunks)
    /\ pc' = "done"
    /\ connection' = IF connection = "open" THEN "closed" ELSE connection
    /\ UNCHANGED <<paramVars, max_timestamp, total_rows, skipped_rows, chunk_num,
                   inserted, insertCalls, queries, csvRead, connects,
                   watermarkError, exc>>

LoadNext ==
    \/ CheckConfig
    \/ ExistsQuery
    \/ MaxQuery
    \/ ReadCsv
    \/ ProcessChunk
    \/ Finish

SpecLoad == LoadInit /\ [][LoadNext]_vars

(***************************************************************************)
(* mask_phone                                                              *)
(***************************************************************************)
\* strings are sequences of characters
Stars(n) == [i \in 1..n |-> "*"]

\* phone_number[-4:]
LastFour(s) == SubSeq(s, Len(s) - 3, Len(s))

mask_phone_LastFive(s) ==
    IF Len(s) > 4 THEN Stars(3) \o SubSeq(s, Len(s) - 4, Len(s)) ELSE Stars(4)

mask_phone(s) ==
    IF Len(s) > 4 THEN Stars(3) \o LastFour(s) ELSE Stars(4)

PhoneChars == {"0", "1", "+"}

MaskInit ==
    /\ phone_number \in SeqsUpTo(PhoneChars, MaxPhoneLen)
    /\ masked_number = <<>>
    /\ pc = "m_call"
    /\ exc = None
    /\ LoadIdle /\ WhatsIdle /\ EmailIdle /\ CleanIdle /\ LoopIdle

\* masked_number = mask_phone(phone_no)
MaskPhone ==
    /\ pc = "m_call"
    /\ masked_number' = mask_phone(phone_number)
    /\ pc' = "m_returned"
    /\ UNCHANGED <<loadVars, whatsVars, emailVars, cleanVars, loopVars, phone_number, exc>>

MaskNext == MaskPhone

SpecMask == MaskInit /\ [][MaskNext]_vars

(***************************************************************************)
(* The WhatsApp broadcaster script                                         *)
(***************************************************************************)
NoneFields == <<>>      \* None where the other values are lists of comma-separated fields
EmptyString == << <<>> >>   \* "".split(',') is ['']

\* Python truthiness of os.getenv("CONTACTS")
TruthyFields(f) == f # NoneFields /\ f # EmptyString

\* num.strip()
RECURSIVE LStrip(_)
LStrip(s) == IF s # <<>> /\ Head(s) = " " THEN LStrip(Tail(s)) ELSE s

RECURSIVE RStrip(_)
RStrip(s) == IF s # <<>> /\ s[Len(s)] = " " THEN RStrip(SubSeq(s, 1, Len(s) - 1)) ELSE s

Strip(s) == RStrip(LStrip(s))

\* the comma-separated fields a CONTACTS value is made of
PhoneFields ==
    { <<>>,
      <<"1", "2">>,
      <<" ", "2", "3", "4", "5", "6">>,
      <<"7", "8", "9", "0", "1", " ">> }

WhatsInit ==
    /\ google_form \in {None, "", "http://f"}
    /\ message_template \in {None, "", "Hi {sender}, sign here: {form_link}"}
    /\ sender_name \in {None, "", "Bot"}
    /\ recepients \in {NoneFields} \cup (SeqsUpTo(PhoneFields, MaxContacts) \ {<<>>})
    /\ contact_list = <<>>
    /\ attempts = <<>>
    /\ log = <<>>
    /\ pc = "w_import"
    /\ exc = None
    /\ LoadIdle /\ MaskIdle /\ EmailIdle /\ CleanIdle /\ LoopIdle

envVars == <<google_form, recepients, message_template, sender_name>>

\* line 35, run when the module is loaded:
\* contact_list = [num.strip() for num in recepients.split(',')]
ImportModule ==
    /\ pc = "w_import"
    /\ IF recepients = NoneFields
       THEN \* None has no split: the script dies with a traceback
            /\ pc' = "w_crashed"
            /\ exc' = "AttributeError"
            /\ UNCHANGED contact_list
       ELSE /\ contact_list' = [i \in 1..Len(recepients) |-> Strip(recepients[i])]
            /\ pc' = "w_main"
            /\ UNCHANGED exc
    /\ UNCHANGED <<loadVars, maskVars, emailVars, cleanVars, loopVars, envVars, attempts, log>>

\* lines 94-105 and the start of send_messages (lines 51-59)
Validate ==
    /\ pc = "w_main"
    /\ IF ~(TruthyStr(google_form) /\ TruthyFields(recepients)
             /\ TruthyStr(message_template) /\ TruthyStr(sender_name))
       THEN /\ log' = log \o <<"Missing required environment variables in .env file",
                               "Required: google_form, message_template, sender_name, recepients">>
            /\ pc' = "w_aborted"
            /\ UNCHANGED loopVars
       ELSE /\ pc' = "w_sending"
            /\ idx' = 0
            /\ success_count' = 0
            /\ failed_count' = 0
            /\ UNCHANGED <<log, trace>>
    /\ UNCHANGED <<loadVars, maskVars, emailVars, cleanVars, envVars, contact_list, attempts, exc>>

\* line 74: is the send to contact number i followed by the 60-second sleep
SleepsAfterAlways(i) == TRUE

SleepsAfter(i) == i < Len(contact_list)

\* line 85: where the loop goes after a send that raised
AfterExceptionStop == "w_done"

AfterException == "w_sending"

Event(kind, i, secs) == [kind |-> kind, contact |-> i, secs |-> secs]

\* one iteration of the for loop of send_messages (lines 61-85)
SendMessage ==
    /\ pc = "w_sending"
    /\ idx < Len(contact_list)
    /\ LET i == idx + 1
           phone_no == contact_list[i]
       IN /\ idx' = i
          /\ phone_number' = phone_no
          /\ masked_number' = mask_phone(phone_no)
          /\ attempts' = Append(attempts, phone_no)
          /\ \E raises \in BOOLEAN :
               IF raises
               THEN /\ log' = Append(log, "Failed to send")
                    /\ failed_count' = failed_count + 1
                    /\ trace' = Append(trace, Event("raised", i, 0))
                    /\ pc' = AfterException
                    /\ UNCHANGED success_count
               ELSE /\ success_count' = success_count + 1
                    /\ trace' = IF SleepsAfter(i)
                                THEN trace \o <<Event("sent", i, 0), Event("sleep", i, 60)>>
                                ELSE Append(trace, Event("sent", i, 0))
                    /\ UNCHANGED <<log, failed_count, pc>>
    /\ UNCHANGED <<loadVars, emailVars, cleanVars, envVars, contact_list, exc>>

\* lines 88-92: the loop is over, the summary is logged
Summary ==
    /\ pc = "w_sending"
    /\ idx = Len(contact_list)
    /\ pc' = "w_done"
    /\ UNCHANGED <<loadVars, whatsVars, maskVars, emailVars, cleanVars, loopVars, exc>>

WhatsNext ==
    \/ ImportModule
    \/ Validate
    \/ SendMessage
    \/ Summary

SpecWhats == WhatsInit /\ [][WhatsNext]_vars

(***************************************************************************)
(* The quote emailer                                                       *)
(***************************************************************************)
\* the fixed fallback quote of get_random_quote
Fallback == <<"Believe you can and you're halfway there. - Theodore Roosevelt">>

\* f'"{quote}" - {author}'
FullQuote(q, a) == <<"\"", q, "\" - ", a>>

Resp(error, status, body, q, a) ==
    [error |-> error, status |-> status, body |-> body, q |-> q, a |-> a]

\* what requests.get('https://zenquotes.io/api/random', timeout=30) can meet:
\* an exception, a non-200 status, or a 200 whose body is not JSON, is an
\* empty list, lacks the key 'q' or 'a', or is well-formed
Responses ==
    {Resp(e, 0, None, None, None) : e \in {"Timeout", "ConnectionError"}}
    \cup {Resp(None, st, None, None, None) : st \in {404, 500}}
    \cup {Resp(None, 200, b, None, None) : b \in {"not_json", "empty_list", "no_q"}}
    \cup {Resp(None, 200, "no_a", q, None) : q \in {"q1", "q2"}}
    \cup {Resp(None, 200, "ok", q, "a1") : q \in {"q1", "q2"}}

Return(v) == [raised |-> FALSE, exctype |-> None, value |-> v]
Raised(e) == [raised |-> TRUE, exctype |-> e, value |-> <<>>]

\* the body of the try block (lines 99-116)
TryBody(r) ==
    IF r.error # None THEN Raised(r.error)
    ELSE IF r.status = 200
         THEN IF r.body = "not_json" THEN Raised("JSONDecodeError")
              ELSE IF r.body = "empty_list" THEN Raised("IndexError")
              ELSE IF r.body \in {"no_q", "no_a"} THEN Raised("KeyError")
              ELSE Return(FullQuote(r.q, r.a))
         ELSE Return(Fallback)

get_random_quote_TimeoutOnly(r) ==
    LET t == TryBody(r)
    IN IF t.raised /\ t.exctype = "Timeout" THEN Return(Fallback) ELSE t

\* the try block with its two handlers (lines 118-123)
get_random_quote(r) ==
    LET t == TryBody(r)
    IN IF t.raised
       THEN IF t.exctype = "Timeout"
            THEN Return(Fallback)      \* except requests.exceptions.Timeout
            ELSE Return(Fallback)      \* except Exception
       ELSE t

\* what the with-block of send_email can meet; every exception is caught
SendOutcomes == {"sent", "SMTPAuthenticationError", "SMTPException", "Exception"}

\* the value send_email returns
send_email(outcome) == outcome = "sent"

EmailInit ==
    /\ pc = "e_start"
    /\ exc = None
    /\ EmailIdle
    /\ LoadIdle /\ WhatsIdle /\ MaskIdle /\ CleanIdle /\ LoopIdle

\* subscribers = get_subscribers(); the abort on an empty list; the counters
GetSubscribers ==
    /\ pc = "e_start"
    /\ \E n \in 0..MaxSubscribers : subscribers' = [i \in 1..n |-> i]
    /\ pc' = IF subscribers' = <<>> THEN "e_aborted" ELSE "e_quote"
    /\ idx' = 0
    /\ success_count' = 0
    /\ failed_count' = 0
    /\ UNCHANGED <<loadVars, whatsVars, maskVars, cleanVars, response, quote,
                   quoteCalls, requestsMade, trace, exc>>

\* quote = get_random_quote()       (line 227)
FetchQuote ==
    /\ pc = "e_quote"
    /\ idx < Len(subscribers)
    /\ quoteCalls' = quoteCalls + 1
    /\ requestsMade' = requestsMade + 1
    /\ \E r \in Responses :
         /\ response' = r
         /\ LET result == get_random_quote(r)
            IN IF result.raised
               THEN /\ pc' = "e_raised"
                    /\ exc' = result.exctype
                    /\ UNCHANGED quote
               ELSE /\ quote' = result.value
                    /\ pc' = "e_send"
                    /\ UNCHANGED exc
    /\ UNCHANGED <<loadVars, whatsVars, maskVars, cleanVars, loopVars, subscribers>>

\* the rest of the loop body: send_email, the counters, the 30-second sleep (lines 230-236)
SendEmail ==
    /\ pc = "e_send"
    /\ LET i == idx + 1
       IN /\ idx' = i
          /\ \E outcome \in SendOutcomes :
               LET ok == send_email(outcome)
                   sent == Event(IF ok THEN "sent" ELSE "failed", i, 0)
               IN /\ success_count' = IF ok THEN success_count + 1 ELSE success_count
                  /\ trace' = IF i < Len(subscribers)
                              THEN trace \o <<sent, Event("sleep", i, 30)>>
                              ELSE Append(trace, sent)
    /\ pc' = "e_quote"
    /\ UNCHANGED <<loadVars, whatsVars, maskVars, emailVars, cleanVars, failed_count, exc>>

\* the pipeline summary (lines 238-250)
EmailSummary ==
    /\ pc = "e_quote"
    /\ idx = Len(subscribers)
    /\ pc' = "e_done"
    /\ UNCHANGED <<loadVars, whatsVars, maskVars, emailVars, cleanVars, loopVars, exc>>

EmailNext ==
    \/ GetSubscribers
    \/ FetchQuote
    \/ SendEmail
    \/ EmailSummary

SpecEmail == EmailInit /\ [][EmailNext]_vars

(***************************************************************************)
(* clean_dataframe                                                         *)
(* A DataFrame is its column labels and its rows; a cell is a text or NaN. *)
(***************************************************************************)
NaN == "<NaN>"

\* the cell texts of the model: one matches ^[A-Z]$, one matches ^\d+, one matches neither
Cells == {NaN, "A", "1", "x"}

\* texts matching r'^\d+' and r'^[A-Z]$'
DigitLeading == {"0", "1", "2", "3"}
SingleUpper == {"A"}

\* astype(str) of a cell: NaN becomes 'nan'
Str(c) == IF c = NaN THEN "nan" ELSE c

\* the integer column labels 0, 1, 2, ... that read_html gives a table without <th> cells
IntLabel(j) == <<"int:0", "int:1", "int:2", "int:3">>[j]

\* the labels read_html takes from <th> cells, with the blanks around them
HeaderLabel(j) == <<" First Name. ", "Email.", " Status", "Note ">>[j]

\* df.columns.astype(str) on one label
LabelStr(n) ==
    CASE n = "int:0" -> "0"
      [] n = "int:1" -> "1"
      [] n = "int:2" -> "2"
      [] n = "int:3" -> "3"
      [] OTHER -> Str(n)

\* .str.strip() on one label
StripName(n) ==
    CASE n = " First Name. " -> "First Name."
      [] n = " Status" -> "Status"
      [] n = "Note " -> "Note"
      [] OTHER -> n

Table(columns, data) == [columns |-> columns, data |-> data]
NRows(t) == Len(t.data)
NCols(t) == Len(t.columns)

CleanReturn(t) == [raised |-> FALSE, exctype |-> None, value |-> t]
CleanRaised(e) == [raised |-> TRUE, exctype |-> e, value |-> Table(<<>>, <<>>)]

\* df.iloc[:, keep] for a list of column positions
Project(t, keep) ==
    Table([k \in 1..Len(keep) |-> t.columns[keep[k]]],
          [i \in 1..NRows(t) |-> [k \in 1..Len(keep) |-> t.data[i][keep[k]]]])

\* df.dropna(how='all'): a row goes when none of its cells is present
DropEmptyRows(t) ==
    Table(t.columns,
          SelectSeq(t.data, LAMBDA r : \E j \in 1..Len(r) : r[j] # NaN))

\* .dropna(axis=1, how='all'): a column goes when none of its cells is present
DropEmptyColumns(t) ==
    Project(t, SelectSeq([j \in 1..NCols(t) |-> j],
                         LAMBDA j : \E i \in 1..NRows(t) : t.data[i][j] # NaN))

\* first_col.astype(str).str.match(r'^\d+').all()
FirstColumnIsRowIds(t) ==
    \A i \in 1..NRows(t) : Str(t.data[i][1]) \in DigitLeading

\* df.iloc[:, 1:]
DropFirstColumn(t) == Project(t, [k \in 1..(NCols(t) - 1) |-> k + 1])

\* df.iloc[0].astype(str).str.match(r'^[A-Z]$').sum()
LetterCells(r) == Cardinality({j \in 1..Len(r) : Str(r[j]) \in SingleUpper})

\* line 89: the first row is not a row of spreadsheet column letters
FirstRowIsHeaderStrict(t) == LetterCells(t.data[1]) < NCols(t)

FirstRowIsHeader(t) == 2 * LetterCells(t.data[1]) < NCols(t)

\* lines 89-92: df.columns = df.iloc[0]; df = df.iloc[1:]
PromoteHeader(t) ==
    IF FirstRowIsHeader(t) /\ ~(\A j \in 1..NCols(t) : t.data[1][j] = NaN)
    THEN Table(t.data[1], Tail(t.data))
    ELSE t

\* df.columns.astype(str).str.strip()
StripColumns(t) ==
    Table([j \in 1..NCols(t) |-> StripName(LabelStr(t.columns[j]))], t.data)

\* df.loc[~(df.astype(str).nunique(axis=1) == 1)]
DropDegenerateRows(t) ==
    Table(t.columns,
          SelectSeq(t.data, LAMBDA r : Cardinality({Str(r[j]) : j \in 1..Len(r)}) # 1))

clean_dataframe(t) ==
    LET a == DropEmptyColumns(DropEmptyRows(t))
    IN IF NRows(a) = 0
       THEN CleanRaised("IndexError")       \* df.iloc[0] of line 79
       ELSE LET b == IF FirstColumnIsRowIds(a) THEN DropFirstColumn(a) ELSE a
            IN CleanReturn(DropDegenerateRows(StripColumns(PromoteHeader(b))))

\* the column labels read_html can give a table of w columns
RawLabels(w) == {[j \in 1..w |-> IntLabel(j)], [j \in 1..w |-> HeaderLabel(j)]}

\* df is the empty DataFrame of line 50 or a table of some height and width
CleanInit ==
    /\ \/ df = Table(<<>>, <<>>)
       \/ \E n \in 1..MaxTableRows, w \in TableWidths :
            \E labels \in RawLabels(w), data \in [1..n -> [1..w -> Cells]] :
               df = Table(labels, data)
    /\ cleaned = CleanReturn(Table(<<>>, <<>>))
    /\ recleaned = cleaned
    /\ pc = "c_start"
    /\ exc = None
    /\ LoadIdle /\ WhatsIdle /\ MaskIdle /\ EmailIdle /\ LoopIdle

\* df_clean = clean_dataframe(df)
Clean ==
    /\ pc = "c_start"
    /\ cleaned' = clean_dataframe(df)
    /\ IF cleaned'.raised
       THEN pc' = "c_raised" /\ exc' = cleaned'.exctype
       ELSE pc' = "c_cleaned" /\ UNCHANGED exc
    /\ UNCHANGED <<loadVars, whatsVars, maskVars, emailVars, loopVars, df, recleaned>>

\* clean_dataframe applied to a table it returned
CleanAgain ==
    /\ pc = "c_cleaned"
    /\ recleaned' = clean_dataframe(cleaned.value)
    /\ pc' = "c_recleaned"
    /\ exc' = recleaned'.exctype
    /\ UNCHANGED <<loadVars, whatsVars, maskVars, emailVars, loopVars, df, cleaned>>

CleanNext ==
    \/ Clean
    \/ CleanAgain

SpecClean == CleanInit /\ [][CleanNext]_vars

(***************************************************************************)
(* Properties of load_csv_to_clickhouse                                    *)
(***************************************************************************)
\* the incremental run obtained a watermark T = max_timestamp from the table
Watermarked == incremental /\ max_timestamp # NoneTs

\* row numbers of the CSV, in file order
RowNumbers == [i \in 1..Len(rows) |-> i]

\* the timestamp of row i is an instant strictly after T
After(i, T) == rows[i] \in 1..MaxTs /\ rows[i] > T

\* what C1 promises of a run with watermark max_timestamp
IncrementalOutcome ==
    /\ \A k \in 1..Len(inserted) : After(inserted[k], max_timestamp)
    /\ pc = "done" =>
         /\ inserted = SelectSeq(RowNumbers, LAMBDA i : After(i, max_timestamp))
         /\ total_rows = Len(inserted)
         /\ skipped_rows = Len(rows) - Len(inserted)
         /\ total_rows + skipped_rows = Len(rows)

\* C1 (as stated): in an incremental load with watermark T, for every CSV and
\* every chunking, every inserted row has a timestamp strictly greater than T,
\* rows with timestamp <= T are skipped and counted, and at the end
\* inserted + skipped = number of CSV rows.
C1_AsStated == Watermarked => IncrementalOutcome

\* C1 (amended): the same, for every CSV whose header contains timestamp_column.
C1_IncrementalFilter ==
    (Watermarked /\ timestamp_column \in csvColumns) => IncrementalOutcome

\* a finished incremental load over two chunks that inserted some rows and skipped others
C1_Witness ==
    /\ pc = "done"
    /\ Watermarked
    /\ timestamp_column \in csvColumns
    /\ Len(chunks) >= 2
    /\ Len(inserted) >= 1
    /\ skipped_rows >= 1
    /\ \E i \in 1..Len(rows) : rows[i] = max_timestamp

\* the chunk the loop is about to handle has zero rows once the filter of line 185 is applied
NextChunkIsEmpty ==
    /\ pc = "loop"
    /\ chunk_num < Len(chunks)
    /\ LET chunk == chunks[chunk_num + 1]
       IN IF incremental /\ max_timestamp # NoneTs /\ timestamp_column \in csvColumns
          THEN \A j \in 1..Len(chunk) : ~After(chunk[j], max_timestamp)
          ELSE Len(chunk) = 0

\* C2: a chunk with zero rows (in particular after incremental filtering)
\* issues no insert call, raises no error, leaves the inserted-row counter
\* unchanged, and the loop proceeds to the next chunk.
C2_EmptyChunkSkipped ==
    [][NextChunkIsEmpty =>
          /\ insertCalls' = insertCalls
          /\ inserted' = inserted
          /\ total_rows' = total_rows
          /\ exc' = None
          /\ pc' = "loop"
          /\ chunk_num' = chunk_num + 1]_vars

\* a finished load in which one chunk was filtered down to nothing and another was inserted
C2_Witness ==
    /\ pc = "done"
    /\ Watermarked
    /\ timestamp_column \in csvColumns
    /\ Len(chunks) = 2
    /\ insertCalls = 1
    /\ skipped_rows >= Len(chunks[1])
    /\ \A j \in 1..Len(chunks[1]) : ~After(chunks[1][j], max_timestamp)

\* C8: incremental=True without a timestamp_column raises a configuration
\* error before any warehouse query, CSV read or insert has happened.
C8_FailFast ==
    /\ (incremental /\ timestamp_column \in {None, ""} /\ pc # "start") =>
           (pc = "raised" /\ exc = "ValueError")
    /\ exc = "ValueError" =>
           /\ queries = 0
           /\ ~csvRead
           /\ insertCalls = 0
           /\ inserted = <<>>
           /\ connection = "none"

\* the configuration error has been raised
C8_Witness ==
    /\ pc = "raised"
    /\ exc = "ValueError"
    /\ incremental
    /\ timestamp_column = None
    /\ Len(rows) >= 1

\* C11: every invocation opens exactly one warehouse connection and closes it
\* before the invocation ends, on every exit path: normal completion, a
\* configuration error, a CSV read error, an insert failure part-way.
C11_AsStated ==
    pc \in {"done", "raised"} =>
        /\ connects = 1
        /\ connection = "closed"

\* the run loads the whole CSV: no watermark, nothing skipped, the rows
\* inserted in file order, all of them once the loop is over
LoadsEverything ==
    /\ max_timestamp = NoneTs
    /\ skipped_rows = 0
    /\ Len(inserted) <= Len(rows)
    /\ inserted = SubSeq(RowNumbers, 1, Len(inserted))
    /\ total_rows = Len(inserted)
    /\ pc = "done" => inserted = RowNumbers

\* the watermark queries are over and found no table or no row in it
NoTableOrEmpty ==
    /\ incremental
    /\ ~watermarkError
    /\ pc \in {"read", "loop", "done"}
    /\ ~tableExists \/ tableMax = NoneTs

\* C12: in an incremental load, if the table-existence check or the watermark
\* query raises, the loader does not fail: it goes on without a watermark and
\* inserts every row of the CSV, none counted as skipped, exactly as when the
\* table does not exist or is empty.
C12_WatermarkFallback ==
    /\ (incremental /\ watermarkError) =>
          /\ pc \in {"read", "loop", "done", "raised"}
          /\ pc = "raised" => (csvRead /\ exc \in {"FileNotFoundError", "Error"})
          /\ LoadsEverything
    /\ NoTableOrEmpty => LoadsEverything

\* a finished incremental load whose SELECT max query raised on a table that
\* holds a newer timestamp than some CSV rows: all rows were inserted all the same
C12_Witness ==
    /\ pc = "done"
    /\ incremental
    /\ watermarkError
    /\ queries = 2
    /\ tableExists
    /\ tableMax # NoneTs
    /\ timestamp_column \in csvColumns
    /\ Len(rows) >= 2
    /\ \E i \in 1..Len(rows) : rows[i] \in 1..tableMax
    /\ inserted = RowNumbers
    /\ skipped_rows = 0

(***************************************************************************)
(* Properties of mask_phone                                                *)
(***************************************************************************)
\* C9: for an input longer than 4 characters the result is `***` followed by
\* exactly the last 4 characters of the input; for an input of 4 characters
\* or fewer it is `****`; no other character of the input appears.
C9_MaskPhone ==
    pc = "m_returned" =>
        IF Len(phone_number) > 4
        THEN /\ Len(masked_number) = 7
             /\ \A j \in 1..3 : masked_number[j] = "*"
             /\ \A j \in 1..4 :
                    masked_number[3 + j] = phone_number[Len(phone_number) - 4 + j]
        ELSE masked_number = <<"*", "*", "*", "*">>

\* a six-character number has been masked, its first two characters unlike its last four
C9_Witness ==
    /\ pc = "m_returned"
    /\ Len(phone_number) = 6
    /\ phone_number[1] = "+"
    /\ phone_number[2] = "1"
    /\ \A j \in 3..6 : phone_number[j] = "0"

(***************************************************************************)
(* Properties of the WhatsApp broadcaster                                  *)
(***************************************************************************)
IsSend(e) == e.kind \in {"sent", "raised"}
SendEvents == SelectSeq(trace, IsSend)
CountKind(kind) == Len(SelectSeq(trace, LAMBDA e : e.kind = kind))

\* C5: each contact receives exactly one send attempt in list order, an
\* exception on one contact never prevents the attempts on later contacts,
\* and at the end success + failed = number of contacts, with failed = number
\* of attempts that raised.
C5_SendEachOnce ==
    pc \in {"w_sending", "w_done"} =>
        /\ Len(attempts) <= Len(contact_list)
        /\ attempts = SubSeq(contact_list, 1, Len(attempts))
        /\ Len(SendEvents) = Len(attempts)
        /\ \A k \in 1..Len(SendEvents) : SendEvents[k].contact = k
        /\ failed_count = CountKind("raised")
        /\ success_count = CountKind("sent")
        /\ pc = "w_done" =>
              /\ attempts = contact_list
              /\ success_count + failed_count = Len(contact_list)

\* a finished run over three contacts whose first send raised and whose last send succeeded
C5_Witness ==
    /\ pc = "w_done"
    /\ Len(contact_list) = 3
    /\ trace[1].kind = "raised"
    /\ failed_count = 2
    /\ success_count = 1
    /\ trace[Len(trace)].kind = "sent"

RequiredMessage == "Missing required environment variables in .env file"

\* one of the four required configuration values is absent
ConfigAbsent ==
    \/ google_form = None
    \/ message_template = None
    \/ sender_name = None
    \/ recepients = NoneFields

\* C6: whenever one of the four required configuration values is absent, the
\* run aborts before any send is attempted, with an explicit configuration
\* error that is logged once.
C6_AsStated ==
    (ConfigAbsent /\ pc # "w_import") =>
        /\ attempts = <<>>
        /\ pc \in {"w_main", "w_aborted"}
        /\ pc = "w_aborted" =>
              Len(SelectSeq(log, LAMBDA m : m = RequiredMessage)) = 1

\* C10 (as stated): between the send attempts on any two consecutive contacts
\* a 60-second sleep occurs, whatever the outcome of the earlier attempt, and
\* no sleep follows the last contact.
C10_AsStated ==
    \A k \in 1..Len(trace) :
        /\ (IsSend(trace[k]) /\ k < Len(trace)) =>
               /\ trace[k].contact < Len(contact_list)
               /\ trace[k + 1] = Event("sleep", trace[k].contact, 60)
        /\ trace[k].kind = "sleep" => k < Len(trace) \/ pc = "w_sending"

\* C10 (amended): a send that succeeded on a contact other than the last is
\* followed by one 60-second sleep before the next attempt; a send that
\* raised is followed by no sleep; no sleep follows the last contact.
C10_SleepAfterSuccess ==
    pc \in {"w_sending", "w_done"} =>
        \A k \in 1..Len(trace) :
            /\ (trace[k].kind = "sent" /\ trace[k].contact < Len(contact_list)) =>
                   /\ k < Len(trace)
                   /\ trace[k + 1] = Event("sleep", trace[k].contact, 60)
            /\ (trace[k].kind = "sent" /\ trace[k].contact = Len(contact_list)) =>
                   k = Len(trace)
            /\ (trace[k].kind = "raised" /\ k < Len(trace)) => IsSend(trace[k + 1])
            /\ trace[k].kind = "sleep" =>
                   /\ k > 1
                   /\ trace[k - 1].kind = "sent"
                   /\ trace[k].contact < Len(contact_list)

\* a finished run in which a successful send was followed by the sleep and a
\* raising send was followed directly by the next attempt
C10_Witness ==
    /\ pc = "w_done"
    /\ Len(contact_list) = 3
    /\ Len(trace) = 4
    /\ trace[1].kind = "sent"
    /\ trace[2].kind = "sleep"
    /\ trace[3].kind = "raised"
    /\ trace[4].kind = "sent"

(***************************************************************************)
(* Properties of the quote emailer                                         *)
(***************************************************************************)
\* C4: when the loop of main ends, the reported success count equals the
\* number of send_email calls that returned True, the reported failure count
\* equals the number that returned False, and success + failure = N.
C4_AsStated ==
    pc = "e_done" =>
        /\ success_count = CountKind("sent")
        /\ failed_count = CountKind("failed")
        /\ success_count + failed_count = Len(subscribers)

\* C7: get_random_quote never raises; on a non-200 status, a timeout or any
\* other exception (a malformed 200 body included) it returns exactly the
\* fallback quote; only a well-formed 200 response yields another quote; and
\* each call makes one request, never a second.
C7_QuoteFallback ==
    /\ pc # "e_raised"
    /\ exc = None
    /\ requestsMade = quoteCalls
    /\ pc = "e_send" =>
          IF response.error = None /\ response.status = 200 /\ response.body = "ok"
          THEN /\ quote = <<"\"", response.q, "\" - ", response.a>>
               /\ quote # Fallback
          ELSE quote = Fallback

\* get_random_quote has returned the fallback for a 200 response whose body lacks a key,
\* after an earlier call that returned a fetched quote
C7_Witness ==
    /\ pc = "e_send"
    /\ quoteCalls = 2
    /\ requestsMade = 2
    /\ response.status = 200
    /\ response.body = "no_a"
    /\ quote = Fallback

(***************************************************************************)
(* Properties of clean_dataframe                                           *)
(***************************************************************************)
\* the second application returned the table it was given
SameTable == ~recleaned.raised /\ recleaned.value = cleaned.value

\* C3 (as stated): for every table T that is an output of clean_dataframe,
\* clean_dataframe(T) equals T: same column names, same rows in the same order.
C3_AsStated == pc = "c_recleaned" => SameTable

\* none of the steps of clean_dataframe finds anything to do on T
Settled(T) ==
    /\ Len(T.data) >= 1
    /\ Len(T.columns) >= 1
    /\ \A j \in 1..Len(T.columns) : \E i \in 1..Len(T.data) : T.data[i][j] # NaN
    /\ \E i \in 1..Len(T.data) : T.data[i][1] \notin {"1"}
    /\ 2 * Cardinality({j \in 1..Len(T.columns) : T.data[1][j] = "A"}) >= Len(T.columns)

\* C3 (amended): for a table T that is an output of clean_dataframe,
\* clean_dataframe(T) equals T exactly when T has a row and a column, no
\* column of T is entirely empty, the values of T's first column do not all
\* begin with a digit, and at least half of the cells of T's first row are
\* single uppercase letters; on any other output the second application
\* raises or returns a table with fewer rows or fewer columns.
C3_IdempotentWhenSettled ==
    pc = "c_recleaned" =>
        /\ SameTable <=> Settled(cleaned.value)
        /\ (~SameTable /\ ~recleaned.raised) =>
              /\ Len(recleaned.value.data) <= Len(cleaned.value.data)
              /\ Len(recleaned.value.columns) <= Len(cleaned.value.columns)
              /\ \/ Len(recleaned.value.data) < Len(cleaned.value.data)
                 \/ Len(recleaned.value.columns) < Len(cleaned.value.columns)

\* clean_dataframe was applied again to a two-row output with a letter in
\* half of its first-row cells and returned it unchanged
C3_Witness ==
    /\ pc = "c_recleaned"
    /\ SameTable
    /\ Len(cleaned.value.data) = 2
    /\ Len(cleaned.value.columns) = 2
    /\ cleaned.value.data[1] = <<"A", "x">>
    /\ cleaned.value.columns = <<"First Name.", "Email.">>

====
